---- MODULE Spec2Model ----
(***************************************************************************)
(* Model of the Gemini/MCP client (src/client.py): the schema cleaner      *)
(* _clean_schema_for_gemini, the session lifecycle (connect_to_server,     *)
(* cleanup), the query loop process_query and the driver main.             *)
(***************************************************************************)
EXTENDS Integers, Sequences, FiniteSets, TLC

(***************************************************************************)
(* JSON-like values.  Every value is a tagged record [t, v]:               *)
(*   t = "s"  a scalar (v is a string),                                    *)
(*   t = "d"  a Python dict (v is a function from its keys to values),     *)
(*   t = "l"  a Python list (v is a sequence of values).                   *)
(***************************************************************************)
Scalar(x) == [t |-> "s", v |-> x]
Dict(f) == [t |-> "d", v |-> f]
List(s) == [t |-> "l", v |-> s]

IsDict(x) == x.t = "d"
IsList(x) == x.t = "l"

\* Nesting depth of the schemas the cleaner is applied to.
MaxDepth == 4

\* A faulty cleaner that builds each cleaned list back to front.
RECURSIVE _clean_schema_reversing(_)
_clean_schema_reversing(schema) ==
    Dict([key \in (DOMAIN schema.v) \ {"title"} |->
            LET value == schema.v[key] IN
            IF IsDict(value)
            THEN _clean_schema_reversing(value)
            ELSE IF IsList(value)
            THEN List([i \in 1..Len(value.v) |->
                        LET item == value.v[Len(value.v) + 1 - i] IN
                        IF IsDict(item) THEN _clean_schema_reversing(item) ELSE item])
            ELSE value])

(***************************************************************************)
(* _clean_schema_for_gemini (src/client.py:63-80): a new dict with every   *)
(* entry of schema but the key "title"; a dict value is cleaned            *)
(* recursively, a list value becomes the list of its items with the dict   *)
(* items cleaned and every other item (a nested list included) kept as it  *)
(* is, every other value is kept.                                          *)
(***************************************************************************)
RECURSIVE _clean_schema_for_gemini(_)
_clean_schema_for_gemini(schema) ==
    Dict([key \in (DOMAIN schema.v) \ {"title"} |->
            LET value == schema.v[key] IN
            IF IsDict(value)
            THEN _clean_schema_for_gemini(value)
            ELSE IF IsList(value)
            THEN List([i \in 1..Len(value.v) |->
                        LET item == value.v[i] IN
                        IF IsDict(item) THEN _clean_schema_for_gemini(item) ELSE item])
            ELSE value])

(***************************************************************************)
(* The schemas the cleaner is checked on: dicts over the keys "title",     *)
(* "type" and "items", nested up to MaxDepth levels.  A "title" entry is a *)
(* scalar or a dict (a property that is itself named title); an "items"    *)
(* entry is any value one level down; a list holds no item, one item, or   *)
(* one item before or after a scalar.                                      *)
(***************************************************************************)
Absent == [t |-> "absent", v |-> ""]

TitleVals == {Scalar("T"), Dict([k \in {"type"} |-> Scalar("string")])}

Entry(title, type, items, k) ==
    CASE k = "title" -> title
      [] k = "type" -> type
      [] k = "items" -> items

MkDict(title, type, items) ==
    Dict([k \in {x \in {"title", "type", "items"} : Entry(title, type, items, x) # Absent}
            |-> Entry(title, type, items, k)])

DictsOver(C) ==
    {MkDict(title, type, items) :
        title \in TitleVals \cup {Absent},
        type \in {Scalar("string"), Absent},
        items \in C \cup {Absent}}

ListsOver(C) ==
    {List(<<>>)} \cup {List(<<c>>) : c \in C}
        \cup {List(<<Scalar("x"), c>>) : c \in C}
        \cup {List(<<c, Scalar("x")>>) : c \in C}

Values[d \in 0..MaxDepth] ==
    IF d = 0 THEN {Scalar("x"), Scalar("string")}
    ELSE Values[d - 1] \cup DictsOver(Values[d - 1]) \cup ListsOver(Values[d - 1])

Schemas == DictsOver(Values[MaxDepth - 1])

(***************************************************************************)
(* Text is a sequence of tokens, so that "".join is concatenation and the  *)
(* empty string is <<>>.                                                   *)
(***************************************************************************)
EmptyText == <<>>

\* The fixed strings process_query returns (src/client.py:170, 176).
NoTextAfterTools == <<"No discernable text response after tool execution.">>
NoResponse == <<"No response or tool call from the model.">>

\* The driver's query list (src/client.py:188-193).
queries == << <<"weather in London">>, <<"123 * 45 + 9">>, <<"time in Tokyo">>, <<"giraffes">> >>

(***************************************************************************)
(* A content part carries text, a function call or a function response;    *)
(* the fields it does not carry hold their empty (falsy) value.            *)
(***************************************************************************)
NoCall == [name |-> "", args |-> ""]
NoFunctionResponse == [name |-> "", response |-> EmptyText]

TextPart(x) == [text |-> x, function_call |-> NoCall, function_response |-> NoFunctionResponse]
CallPart(c) == [text |-> EmptyText, function_call |-> c, function_response |-> NoFunctionResponse]

\* The function calls a model reply can request: the tools of src/server.py.
Calls ==
    {[name |-> "get_weather", args |-> "city=London"],
     [name |-> "calculate", args |-> "expression=123*45+9"]}

Texts == {EmptyText, <<"a">>, <<"b">>}

Parts == {TextPart(x) : x \in Texts} \cup {CallPart(c) : c \in Calls}

\* Number of parts of a model reply.
MaxParts == 2

(***************************************************************************)
(* A model reply: one candidate whose content holds up to MaxParts parts,   *)
(* or a reply with nothing in it: no part, an empty (falsy) content, or no *)
(* candidate.                                                              *)
(***************************************************************************)
EmptyContent == [role |-> "", parts |-> <<>>]
ModelContent(ps) == [role |-> "model", parts |-> ps]

Replies ==
    {[candidates |-> << [content |-> ModelContent(ps)] >>] :
            ps \in UNION {[1..n -> Parts] : n \in 1..MaxParts}}
        \cup {[candidates |-> << [content |-> ModelContent(<<>>)] >>],
              [candidates |-> << [content |-> EmptyContent] >>],
              [candidates |-> <<>>]}

NoReply == [candidates |-> <<>>]

(***************************************************************************)
(* What session.call_tool returns: a result whose content is a list of     *)
(* text items.  A tool that failed on the server is reported as a result   *)
(* with isError set and the error message as text.                         *)
(***************************************************************************)
ToolResults ==
    {[isError |-> FALSE, content |-> << [text |-> <<"result">>] >>],
     [isError |-> TRUE, content |-> << [text |-> <<"Error executing tool">>] >>],
     [isError |-> FALSE, content |-> <<>>]}

(***************************************************************************)
(* The tools the server registers (src/server.py:11-54), as list_tools     *)
(* reports them: the input schema of a one-argument function.              *)
(***************************************************************************)
ArgSchema(fn, arg) ==
    Dict([k \in {"properties", "required", "title", "type"} |->
        CASE k = "properties" ->
                Dict([a \in {arg} |->
                    Dict([j \in {"title", "type"} |->
                        IF j = "title" THEN Scalar(arg) ELSE Scalar("string")])])
          [] k = "required" -> List(<<Scalar(arg)>>)
          [] k = "title" -> Scalar(fn)
          [] k = "type" -> Scalar("object")])

ServerTools ==
    << [name |-> "get_weather", description |-> "weather", inputSchema |-> ArgSchema("get_weatherArguments", "city")],
       [name |-> "calculate", description |-> "math", inputSchema |-> ArgSchema("calculateArguments", "expression")],
       [name |-> "get_time", description |-> "time", inputSchema |-> ArgSchema("get_timeArguments", "city")] >>

VARIABLES
    mainPc,          \* where main is: "start", "session", "initialize", "list_tools", "loop", "done", "raised"
    qi,              \* number of queries main has started
    exit_stack,      \* self.exit_stack: the contexts entered and not yet closed
    session,         \* self.session: "None", "entered" (handshake not done), "open" or "closed"
    connected,       \* connect_to_server has returned and cleanup has not run since
    error,           \* what raised out of main, "none" while nothing has
    pqPc,            \* where process_query is
    tools,           \* process_query's tools
    contents,        \* process_query's contents
    response,        \* process_query's response
    function_calls,  \* process_query's function_calls
    tc,              \* index in function_calls of the call being executed
    final_response,  \* process_query's final_response
    output,          \* the value process_query returned
    sent,            \* the model calls issued for this query: what each was given
    invoked,         \* the call_tool requests issued for this query
    listed,          \* the list_tools requests issued for this query
    schema,          \* a schema given to the cleaner
    cleaned,         \* the cleaner's result on schema
    recleaned,       \* the cleaner's result on cleaned
    cleanPc          \* "input", "cleaned", "recleaned" or "raised"

clientVars == <<mainPc, qi, exit_stack, session, connected, error>>
queryVars == <<pqPc, tools, contents, response, function_calls, tc, final_response, output, sent,
               invoked, listed>>
cleanVars == <<schema, cleaned, recleaned, cleanPc>>
vars == <<clientVars, queryVars, cleanVars>>

(***************************************************************************)
(* Helpers of process_query.                                               *)
(***************************************************************************)
RECURSIVE Join(_)
Join(texts) == IF texts = <<>> THEN EmptyText ELSE Head(texts) \o Join(Tail(texts))

Truthy(content) == content # EmptyContent

HasCall(part) == part.function_call # NoCall

\* A faulty get_mcp_tools that declares each tool with its schema as received.
get_mcp_tools_Uncleaned(tools_result) ==
    [i \in 1..Len(tools_result) |->
        [function_declarations |->
            << [name |-> tools_result[i].name,
                description |-> tools_result[i].description,
                parameters |-> tools_result[i].inputSchema] >>]]

\* get_mcp_tools (src/client.py:88-105): one declaration per discovered tool.
get_mcp_tools(tools_result) ==
    [i \in 1..Len(tools_result) |->
        [function_declarations |->
            << [name |-> tools_result[i].name,
                description |-> tools_result[i].description,
                parameters |-> _clean_schema_for_gemini(tools_result[i].inputSchema)] >>]]

\* The user's turn {"role": "user", "parts": [query]} (src/client.py:118).
UserTurn(query) == [role |-> "user", parts |-> <<TextPart(query)>>]

\* A faulty start of the conversation that goes on from the last query's.
InitialContents_Carried(previous, query) == Append(previous, UserTurn(query))

\* contents = [{"role": "user", "parts": [query]}] (src/client.py:118): a new
\* list, whatever an earlier call's contents held.
InitialContents(previous, query) == <<UserTurn(query)>>

\* The arguments of generate_content_async (src/client.py:120-124, 161-165).
ModelCall(conversation, declarations) ==
    [contents |-> conversation, tools |-> declarations, tool_config |-> "AUTO"]

\* The scan of the first reply for function calls (src/client.py:126-131).
ExtractFunctionCalls(resp) ==
    IF resp.candidates # <<>> /\ Truthy(resp.candidates[1].content)
    THEN LET called == SelectSeq(resp.candidates[1].content.parts, HasCall)
         IN [i \in 1..Len(called) |-> called[i].function_call]
    ELSE <<>>

\* A faulty function turn that does not name the tool it answers for.
FunctionTurn_Unnamed(tool_call, result) ==
    [role |-> "function",
     parts |-> << [text |-> EmptyText,
                   function_call |-> NoCall,
                   function_response |-> [name |-> "",
                                          response |-> result.content[1].text]] >>]

\* The turn appended for an executed call (src/client.py:146-158).
FunctionTurn(tool_call, result) ==
    [role |-> "function",
     parts |-> << [text |-> EmptyText,
                   function_call |-> NoCall,
                   function_response |-> [name |-> tool_call.name,
                                          response |-> result.content[1].text]] >>]

\* What process_query returns after the followup reply (src/client.py:167-170).
FollowupOutput(resp) ==
    IF /\ resp.candidates # <<>>
       /\ Truthy(resp.candidates[1].content)
       /\ resp.candidates[1].content.parts # <<>>
    THEN Join([i \in 1..Len(resp.candidates[1].content.parts) |->
                resp.candidates[1].content.parts[i].text])
    ELSE NoTextAfterTools

(***************************************************************************)
(* response.text (src/client.py:173): the text of the reply's parts.  On a *)
(* reply with no candidate or no part the accessor, which belongs to the   *)
(* model library, either raises or yields the empty string: both outcomes  *)
(* are kept.                                                               *)
(***************************************************************************)
ResponseText(resp) ==
    IF resp.candidates # <<>> /\ resp.candidates[1].content.parts # <<>>
    THEN {[raised |-> FALSE,
           text |-> Join([i \in 1..Len(resp.candidates[1].content.parts) |->
                            resp.candidates[1].content.parts[i].text])]}
    ELSE {[raised |-> TRUE, text |-> EmptyText], [raised |-> FALSE, text |-> EmptyText]}

\* A faulty return without tool calls that drops the reply's text.
DirectOutput_Fallback(text) == NoResponse

\* The return without tool calls (src/client.py:173-176).
DirectOutput(text) == IF text # EmptyText THEN text ELSE NoResponse

(***************************************************************************)
(* Initial state: main has built the client (src/client.py:185, 27-35)     *)
(* and process_query has not been called.                                  *)
(***************************************************************************)
EmptyDict == Dict(<<>>)

ClientInit ==
    /\ mainPc = "start"
    /\ qi = 0
    /\ exit_stack = <<>>
    /\ session = "None"
    /\ connected = FALSE
    /\ error = "none"

QueryInit ==
    /\ pqPc = "idle"
    /\ tools = <<>>
    /\ contents = <<>>
    /\ response = NoReply
    /\ function_calls = <<>>
    /\ tc = 0
    /\ final_response = NoReply
    /\ output = EmptyText
    /\ sent = <<>>
    /\ invoked = <<>>
    /\ listed = 0

CleanIdle ==
    /\ schema = EmptyDict
    /\ cleaned = EmptyDict
    /\ recleaned = EmptyDict
    /\ cleanPc = "input"

Init == ClientInit /\ QueryInit /\ CleanIdle

(***************************************************************************)
(* connect_to_server (src/client.py:37-61), one action per await.          *)
(***************************************************************************)
\* An exception leaves main: nothing after the raising statement runs.
MainRaises(e) ==
    /\ mainPc' = "raised"
    /\ error' = e

\* stdio_client is entered on the exit stack (src/client.py:48-51).
StdioConnect ==
    /\ mainPc = "start"
    /\ \/ /\ exit_stack' = Append(exit_stack, "stdio")
          /\ mainPc' = "session"
          /\ UNCHANGED error
       \/ /\ MainRaises("transport")
          /\ UNCHANGED exit_stack
    /\ UNCHANGED <<qi, session, connected, queryVars, cleanVars>>

\* ClientSession is entered on the exit stack (src/client.py:52-54).
SessionEnter ==
    /\ mainPc = "session"
    /\ exit_stack' = Append(exit_stack, "session")
    /\ session' = "entered"
    /\ mainPc' = "initialize"
    /\ UNCHANGED <<qi, connected, error, queryVars, cleanVars>>

\* A faulty handshake step whose failure is recorded and then ignored.
Initialize_Swallowed ==
    /\ mainPc = "initialize"
    /\ mainPc' = "list_tools"
    /\ session' = "open"
    /\ \/ UNCHANGED error
       \/ error' = "initialize"
    /\ UNCHANGED <<qi, exit_stack, connected, queryVars, cleanVars>>

\* session.initialize(), the handshake (src/client.py:56).
Initialize ==
    /\ mainPc = "initialize"
    /\ \/ /\ mainPc' = "list_tools"
          /\ session' = "open"
          /\ UNCHANGED error
       \/ /\ MainRaises("initialize")
          /\ UNCHANGED session
    /\ UNCHANGED <<qi, exit_stack, connected, queryVars, cleanVars>>

\* session.list_tools() and the listing of the tools (src/client.py:58-61).
ConnectListTools ==
    /\ mainPc = "list_tools"
    /\ \/ /\ mainPc' = "loop"
          /\ connected' = TRUE
          /\ UNCHANGED error
       \/ /\ MainRaises("list_tools")
          /\ UNCHANGED connected
    /\ UNCHANGED <<qi, exit_stack, session, queryVars, cleanVars>>

(***************************************************************************)
(* process_query (src/client.py:107-176), one action per await: each       *)
(* resumes at a reply and runs to the next await, return or raise.         *)
(***************************************************************************)
\* An exception leaves process_query and, uncaught by main, main.
QueryRaises(e) ==
    /\ pqPc' = "raised"
    /\ MainRaises(e)

\* main's loop calls process_query, which calls get_mcp_tools, which awaits
\* session.list_tools() (src/client.py:195-197, 116, 88).  The new call's
\* locals hold nothing yet; contents keeps the last call's list until line
\* 118 binds the new one.
StartQuery ==
    /\ mainPc = "loop"
    /\ pqPc \in {"idle", "done"}
    /\ qi < Len(queries)
    /\ qi' = qi + 1
    /\ pqPc' = "await_list_tools"
    /\ listed' = 1
    /\ tools' = <<>>
    /\ response' = NoReply
    /\ function_calls' = <<>>
    /\ tc' = 0
    /\ final_response' = NoReply
    /\ output' = EmptyText
    /\ sent' = <<>>
    /\ invoked' = <<>>
    /\ UNCHANGED <<mainPc, exit_stack, session, connected, error, contents, cleanVars>>

\* A faulty tool discovery whose failure is swallowed: the query goes on
\* with no tools declared.
ListToolsReply_Swallowed ==
    /\ pqPc = "await_list_tools"
    /\ tools' = IF session = "open" THEN get_mcp_tools(ServerTools) ELSE <<>>
    /\ contents' = InitialContents(contents, queries[qi])
    /\ sent' = Append(sent, ModelCall(contents', tools'))
    /\ pqPc' = "await_first"
    /\ UNCHANGED <<mainPc, error>>
    /\ UNCHANGED <<qi, exit_stack, session, connected, response, function_calls, tc,
                   final_response, output, invoked, listed, cleanVars>>

\* list_tools replies, which takes a session whose handshake is done and
\* which is not closed, or raises: the declarations and the conversation are
\* built and the first model call is issued (src/client.py:88-105, 116-124).
ListToolsReply ==
    /\ pqPc = "await_list_tools"
    /\ \/ /\ session = "open"
          /\ tools' = get_mcp_tools(ServerTools)
          /\ contents' = InitialContents(contents, queries[qi])
          /\ sent' = Append(sent, ModelCall(contents', tools'))
          /\ pqPc' = "await_first"
          /\ UNCHANGED <<mainPc, error>>
       \/ /\ QueryRaises("query_list_tools")
          /\ UNCHANGED <<tools, contents, sent>>
    /\ UNCHANGED <<qi, exit_stack, session, connected, response, function_calls, tc,
                   final_response, output, invoked, listed, cleanVars>>

\* A faulty first-reply step that issues all the requested calls at once.
FirstReply_Gather ==
    /\ pqPc = "await_first"
    /\ \E r \in Replies :
        LET calls == ExtractFunctionCalls(r) IN
        /\ response' = r
        /\ function_calls' = calls
        /\ IF calls # <<>>
           THEN /\ contents' = Append(contents, r.candidates[1].content)
                /\ tc' = 1
                /\ invoked' = invoked \o calls
                /\ pqPc' = "await_tool"
                /\ UNCHANGED <<mainPc, error, output>>
           ELSE /\ \E t \in ResponseText(r) :
                     IF t.raised
                     THEN QueryRaises("response_text") /\ UNCHANGED output
                     ELSE /\ output' = DirectOutput(t.text)
                          /\ pqPc' = "done"
                          /\ UNCHANGED <<mainPc, error>>
                /\ UNCHANGED <<contents, tc, invoked>>
    /\ UNCHANGED <<qi, exit_stack, session, connected, tools, final_response, sent, listed,
                   cleanVars>>

\* A faulty first-reply step that does not append the model's reply to the
\* conversation before the tool results.
FirstReply_NoModelTurn ==
    /\ pqPc = "await_first"
    /\ \E r \in Replies :
        LET calls == ExtractFunctionCalls(r) IN
        /\ response' = r
        /\ function_calls' = calls
        /\ IF calls # <<>>
           THEN /\ tc' = 1
                /\ invoked' = Append(invoked, calls[1])
                /\ pqPc' = "await_tool"
                /\ UNCHANGED <<mainPc, error, output>>
           ELSE /\ \E t \in ResponseText(r) :
                     IF t.raised
                     THEN QueryRaises("response_text") /\ UNCHANGED output
                     ELSE /\ output' = DirectOutput(t.text)
                          /\ pqPc' = "done"
                          /\ UNCHANGED <<mainPc, error>>
                /\ UNCHANGED <<tc, invoked>>
    /\ UNCHANGED <<qi, exit_stack, session, connected, tools, contents, final_response, sent,
                   listed, cleanVars>>

\* The first model call replies (src/client.py:120-144, 172-176): with
\* function calls the reply is appended and the first call is invoked;
\* without, the reply's text or the fallback is returned.
FirstReply ==
    /\ pqPc = "await_first"
    /\ \E r \in Replies :
        LET calls == ExtractFunctionCalls(r) IN
        /\ response' = r
        /\ function_calls' = calls
        /\ IF calls # <<>>
           THEN /\ contents' = Append(contents, r.candidates[1].content)
                /\ tc' = 1
                /\ invoked' = Append(invoked, calls[1])
                /\ pqPc' = "await_tool"
                /\ UNCHANGED <<mainPc, error, output>>
           ELSE /\ \E t \in ResponseText(r) :
                     IF t.raised
                     THEN QueryRaises("response_text") /\ UNCHANGED output
                     ELSE /\ output' = DirectOutput(t.text)
                          /\ pqPc' = "done"
                          /\ UNCHANGED <<mainPc, error>>
                /\ UNCHANGED <<contents, tc, invoked>>
    /\ UNCHANGED <<qi, exit_stack, session, connected, tools, final_response, sent, listed,
                   cleanVars>>

\* generate_content_async raises, at the first or at the followup call.
ModelCallRaises ==
    /\ pqPc \in {"await_first", "await_followup"}
    /\ QueryRaises("model_call")
    /\ UNCHANGED <<qi, exit_stack, session, connected, tools, contents, response,
                   function_calls, tc, final_response, output, sent, invoked, listed, cleanVars>>

\* call_tool replies (src/client.py:140-165): the result's first text is
\* appended as a function turn; then the next call is invoked or, after
\* the last, the followup model call is issued.
ToolReply ==
    /\ pqPc = "await_tool"
    /\ \E result \in ToolResults :
        IF result.content = <<>>
        THEN /\ QueryRaises("tool_result")
             /\ UNCHANGED <<contents, tc, invoked, sent>>
        ELSE /\ contents' = Append(contents, FunctionTurn(function_calls[tc], result))
             /\ IF tc < Len(function_calls)
                THEN /\ tc' = tc + 1
                     /\ invoked' = Append(invoked, function_calls[tc + 1])
                     /\ pqPc' = "await_tool"
                     /\ UNCHANGED sent
                ELSE /\ sent' = Append(sent, ModelCall(contents', tools))
                     /\ pqPc' = "await_followup"
                     /\ UNCHANGED <<tc, invoked>>
             /\ UNCHANGED <<mainPc, error>>
    /\ UNCHANGED <<qi, exit_stack, session, connected, tools, response, function_calls,
                   final_response, output, listed, cleanVars>>

\* call_tool raises (src/client.py:140-143): nothing catches it.
ToolRaises ==
    /\ pqPc = "await_tool"
    /\ QueryRaises("call_tool")
    /\ UNCHANGED <<qi, exit_stack, session, connected, tools, contents, response,
                   function_calls, tc, final_response, output, sent, invoked, listed, cleanVars>>

\* A faulty followup step that executes the function calls of the followup
\* reply as it did those of the first reply.
FollowupReply_Chained ==
    /\ pqPc = "await_followup"
    /\ \E r \in Replies :
        LET calls == ExtractFunctionCalls(r) IN
        /\ final_response' = r
        /\ IF calls # <<>>
           THEN /\ function_calls' = calls
                /\ contents' = Append(contents, r.candidates[1].content)
                /\ tc' = 1
                /\ invoked' = Append(invoked, calls[1])
                /\ pqPc' = "await_tool"
                /\ UNCHANGED output
           ELSE /\ output' = FollowupOutput(r)
                /\ pqPc' = "done"
                /\ UNCHANGED <<function_calls, contents, tc, invoked>>
    /\ UNCHANGED <<clientVars, tools, response, sent, listed, cleanVars>>

\* The followup model call replies (src/client.py:161-170).
FollowupReply ==
    /\ pqPc = "await_followup"
    /\ \E r \in Replies :
        /\ final_response' = r
        /\ output' = FollowupOutput(r)
    /\ pqPc' = "done"
    /\ UNCHANGED <<clientVars, tools, contents, response, function_calls, tc,
                   sent, invoked, listed, cleanVars>>

\* A faulty driver that closes the session without waiting for the last of
\* the queries.
Cleanup_Early ==
    /\ mainPc = "loop"
    /\ pqPc \in {"idle", "done"}
    /\ exit_stack' = <<>>
    /\ session' = "closed"
    /\ connected' = FALSE
    /\ mainPc' = "done"
    /\ UNCHANGED <<qi, error, queryVars, cleanVars>>

\* main's cleanup after the last query (src/client.py:201, 178-180).
Cleanup ==
    /\ mainPc = "loop"
    /\ pqPc \in {"idle", "done"}
    /\ qi = Len(queries)
    /\ exit_stack' = <<>>
    /\ session' = "closed"
    /\ connected' = FALSE
    /\ mainPc' = "done"
    /\ UNCHANGED <<qi, error, queryVars, cleanVars>>

Next ==
    \/ StdioConnect
    \/ SessionEnter
    \/ Initialize
    \/ ConnectListTools
    \/ StartQuery
    \/ ListToolsReply
    \/ FirstReply
    \/ ModelCallRaises
    \/ ToolRaises
    \/ ToolReply
    \/ FollowupReply
    \/ Cleanup

Spec == Init /\ [][Next]_vars

(***************************************************************************)
(* The client driven by any caller: connect_to_server, process_query and   *)
(* cleanup called one after another in any order on one MCPGeminiClient,   *)
(* the caller catching what they raise (src/client.py:27-180).             *)
(***************************************************************************)
\* How many connections the exit stack holds at most before a cleanup.
MaxConnects == 1

\* The client as __init__ leaves it, control with the caller
\* (src/client.py:27-35).
ApiInit ==
    /\ mainPc = "caller"
    /\ qi = 0
    /\ exit_stack = <<>>
    /\ session = "None"
    /\ connected = FALSE
    /\ error = "none"
    /\ QueryInit
    /\ CleanIdle

\* The caller calls connect_to_server (src/client.py:37).
ApiConnect ==
    /\ mainPc = "caller"
    /\ Len(exit_stack) < 2 * MaxConnects
    /\ mainPc' = "start"
    /\ UNCHANGED <<qi, exit_stack, session, connected, error, queryVars, cleanVars>>

\* The caller calls process_query (src/client.py:107-116, 82-88): with
\* self.session still None the attribute access of line 88 raises at once,
\* otherwise session.list_tools() is awaited.
ApiProcessQuery ==
    /\ mainPc = "caller"
    /\ \E q \in 1..Len(queries) : qi' = q
    /\ IF session = "None"
       THEN /\ QueryRaises("query_list_tools")
            /\ UNCHANGED listed
       ELSE /\ pqPc' = "await_list_tools"
            /\ mainPc' = "query"
            /\ listed' = 1
            /\ UNCHANGED error
    /\ UNCHANGED <<exit_stack, session, connected, tools, contents, response,
                   function_calls, tc, final_response, output, sent, invoked, cleanVars>>

\* The caller calls cleanup (src/client.py:178-180): the exit stack closes
\* what was entered on it; self.session keeps naming the closed session.
ApiCleanup ==
    /\ mainPc = "caller"
    /\ exit_stack' = <<>>
    /\ session' = IF session = "None" THEN "None" ELSE "closed"
    /\ connected' = FALSE
    /\ UNCHANGED <<mainPc, qi, error, queryVars, cleanVars>>

\* connect_to_server or process_query returns or raises to the caller: the
\* locals of the call are gone.
ApiReturn ==
    /\ \/ mainPc \in {"loop", "raised"}
       \/ mainPc = "query" /\ pqPc = "done"
    /\ mainPc' = "caller"
    /\ qi' = 0
    /\ error' = "none"
    /\ pqPc' = "idle"
    /\ tools' = <<>>
    /\ contents' = <<>>
    /\ response' = NoReply
    /\ function_calls' = <<>>
    /\ tc' = 0
    /\ final_response' = NoReply
    /\ output' = EmptyText
    /\ sent' = <<>>
    /\ invoked' = <<>>
    /\ listed' = 0
    /\ UNCHANGED <<exit_stack, session, connected, cleanVars>>

ApiNext ==
    \/ ApiConnect
    \/ StdioConnect
    \/ SessionEnter
    \/ Initialize
    \/ ConnectListTools
    \/ ApiProcessQuery
    \/ ListToolsReply
    \/ FirstReply
    \/ ModelCallRaises
    \/ ToolRaises
    \/ ToolReply
    \/ FollowupReply
    \/ ApiCleanup
    \/ ApiReturn

SpecApi == ApiInit /\ [][ApiNext]_vars

(***************************************************************************)
(* The cleaner alone: a schema is drawn, cleaned, and the result cleaned   *)
(* again.  The argument is a dict or, for a caller that passes any JSON    *)
(* value, a scalar or a list.                                              *)
(***************************************************************************)
NonDicts == {x \in Values[2] : ~IsDict(x)}

\* for key, value in schema.items() (src/client.py:68) raises on a value
\* that has no items(): a scalar or a list.
ItemsRaises(x) == ~IsDict(x)

CleanInit ==
    /\ ClientInit
    /\ QueryInit
    /\ schema \in Schemas \cup NonDicts
    /\ cleaned = EmptyDict
    /\ recleaned = EmptyDict
    /\ cleanPc = "input"

Clean ==
    /\ cleanPc = "input"
    /\ IF ItemsRaises(schema)
       THEN /\ cleanPc' = "raised"
            /\ UNCHANGED cleaned
       ELSE /\ cleaned' = _clean_schema_for_gemini(schema)
            /\ cleanPc' = "cleaned"
    /\ UNCHANGED <<schema, recleaned, clientVars, queryVars>>

CleanAgain ==
    /\ cleanPc = "cleaned"
    /\ recleaned' = _clean_schema_for_gemini(cleaned)
    /\ cleanPc' = "recleaned"
    /\ UNCHANGED <<schema, cleaned, clientVars, queryVars>>

CleanNext == Clean \/ CleanAgain

SpecClean == CleanInit /\ [][CleanNext]_vars

(***************************************************************************)
(* Vocabulary of the properties, read off the replies and turns themselves *)
(* and not off process_query's helpers.                                    *)
(***************************************************************************)
ReplyParts(r) == IF r.candidates = <<>> THEN <<>> ELSE r.candidates[1].content.parts

CallIndexes(r) == {i \in 1..Len(ReplyParts(r)) : ReplyParts(r)[i].function_call # NoCall}

RECURSIVE CallsFrom(_, _)
CallsFrom(ps, i) ==
    IF i > Len(ps) THEN <<>>
    ELSE IF ps[i].function_call # NoCall
         THEN <<ps[i].function_call>> \o CallsFrom(ps, i + 1)
         ELSE CallsFrom(ps, i + 1)

\* The function calls a reply requests, in the order of its parts.
RequestedCalls(r) == CallsFrom(ReplyParts(r), 1)

RECURSIVE TextFrom(_, _)
TextFrom(ps, i) == IF i > Len(ps) THEN EmptyText ELSE ps[i].text \o TextFrom(ps, i + 1)

\* The text of a reply: its parts' texts in order.
ReplyText(r) == TextFrom(ReplyParts(r), 1)

\* process_query has ended, by returning or by raising.
QueryEnded == pqPc \in {"done", "raised"}

\* The tool-result turns of a conversation.
ResultTurns(conv) == SelectSeq(conv, LAMBDA turn : turn.role = "function")

----------------------------------------------------------------------------
\* C1 as stated: when the first reply has no function-call part, no tool is
\* invoked, one model call is issued and the output is the reply's text.
C1_OutputIsReplyText ==
    (pqPc = "done" /\ CallIndexes(response) = {})
        => /\ invoked = <<>>
           /\ Len(sent) = 1
           /\ output = ReplyText(response)

\* C1 as amended: when the first reply has no function-call part, no tool is
\* invoked and one model call is issued; the query returns the reply's text
\* when that text is not empty and the fixed "No response or tool call from
\* the model." string when it is empty.
C1_DirectReply ==
    (QueryEnded /\ error \notin {"query_list_tools", "model_call"} /\ CallIndexes(response) = {})
        => /\ invoked = <<>>
           /\ Len(sent) = 1
           /\ pqPc = "done" =>
                /\ ReplyText(response) # EmptyText => output = ReplyText(response)
                /\ ReplyText(response) = EmptyText => output = NoResponse

C1_Witness ==
    /\ pqPc = "done"
    /\ CallIndexes(response) = {}
    /\ Len(ReplyParts(response)) = 2
    /\ output = ReplyText(response)
    /\ output = <<"a", "b">>

\* C2: when the first reply requests N >= 1 function calls, process_query
\* performs exactly N tool invocations, in the reply's order and with each
\* call's name and arguments, appends one tool-result turn after each
\* invocation before the next one starts, and issues exactly one followup
\* model call after the N tool-result turns.
C2_AllCallsInvokedInOrder ==
    /\ \* while a query runs, the invocations are a prefix of the requested
       \* calls, and at most the last of them still waits for its result turn
       (sent # <<>> /\ RequestedCalls(response) # <<>>) =>
            /\ Len(invoked) <= Len(RequestedCalls(response))
            /\ invoked = SubSeq(RequestedCalls(response), 1, Len(invoked))
            /\ Len(ResultTurns(contents))
                 = (IF pqPc = "await_tool" THEN Len(invoked) - 1 ELSE Len(invoked))
    /\ \* when the query has ended, all N were invoked and one followup was issued
       (QueryEnded /\ RequestedCalls(response) # <<>>) =>
            /\ invoked = RequestedCalls(response)
            /\ Len(ResultTurns(contents)) = Len(invoked)
            /\ Len(sent) = 2
            /\ Len(ResultTurns(sent[2].contents)) = Len(invoked)

\* C3: a failing tool invocation never propagates out of process_query: its
\* tool-result turn carries a non-empty error description, the remaining
\* calls are invoked and the followup model call is issued.
C3_ToolFailureIsAbsorbed ==
    /\ error \notin {"call_tool", "tool_result"}
    /\ \A i \in 1..Len(ResultTurns(contents)) :
            ResultTurns(contents)[i].parts[1].function_response.response # EmptyText

\* C4: process_query issues at most two model calls for one query.
C4_AtMostTwoModelCalls == Len(sent) <= 2

C4_Witness ==
    /\ pqPc = "done"
    /\ Len(sent) = 2
    /\ RequestedCalls(final_response) # <<>>

\* C5: the function calls of the followup reply are never executed: once
\* the followup model call has been issued, and when the query has returned,
\* the tool invocations of the query are exactly the function calls of the
\* first reply.
C5_FollowupCallsNotExecuted ==
    (Len(sent) = 2 \/ pqPc = "done") => invoked = RequestedCalls(response)

C5_Witness ==
    /\ pqPc = "done"
    /\ Len(RequestedCalls(final_response)) = 2
    /\ Len(invoked) = 1
    /\ invoked = RequestedCalls(response)

\* The function calls of a conversation named n, and its tool results named n.
CallsNamed(conv, n) ==
    UNION {{<<i, j>> : j \in {k \in 1..Len(conv[i].parts) :
                                /\ conv[i].parts[k].function_call # NoCall
                                /\ conv[i].parts[k].function_call.name = n}} :
           i \in 1..Len(conv)}

ResultsNamed(conv, n) ==
    {i \in 1..Len(conv) :
        conv[i].role = "function" /\ conv[i].parts[1].function_response.name = n}

ToolNames == {c.name : c \in Calls} \cup {ServerTools[i].name : i \in 1..Len(ServerTools)}

\* Every function call of conv has one tool-result turn of its name, after
\* the turn that holds the call, and there is no other tool-result turn.
Matched(conv) ==
    /\ \A i \in 1..Len(conv) :
            conv[i].role = "function" =>
                conv[i].parts[1].function_response.name \in ToolNames
    /\ \A n \in ToolNames :
        /\ Cardinality(CallsNamed(conv, n)) = Cardinality(ResultsNamed(conv, n))
        /\ \A i \in ResultsNamed(conv, n) : \E c \in CallsNamed(conv, n) : c[1] < i

\* C6: in the conversation given to any model call, every function call is
\* matched by exactly one tool-result turn of the same name placed after the
\* model turn that holds the call.
C6_CallsMatchedAtModelCall ==
    \A k \in 1..Len(sent) : Matched(sent[k].contents)

C6_Witness ==
    /\ Len(sent) = 2
    /\ Len(invoked) = 2
    /\ invoked[1].name = invoked[2].name
    /\ Len(ResultTurns(sent[2].contents)) = 2

\* C7: whenever main has ended, normally or by an exception raised at
\* connect, tool discovery, a model call or a tool invocation, cleanup has
\* run: nothing is left on the exit stack.
C7_ClosedOnEveryExit ==
    mainPc \in {"done", "raised"} => exit_stack = <<>>

\* C8: when connect fails at the transport or at the handshake, the failure
\* reaches main's caller and no query is started: no model call and no tool
\* invocation is made.
C8_ConnectFailureIsFatal ==
    error \in {"transport", "initialize"} =>
        /\ mainPc = "raised"
        /\ qi = 0
        /\ sent = <<>>
        /\ invoked = <<>>

C8_Witness ==
    /\ error = "initialize"
    /\ mainPc = "raised"
    /\ session = "entered"
    /\ exit_stack = <<"stdio", "session">>

----------------------------------------------------------------------------
\* C9: schema cleaning is idempotent: cleaning a cleaned schema gives the
\* cleaned schema back.
C9_CleanIdempotent == cleanPc = "recleaned" => recleaned = cleaned

C9_Witness ==
    /\ cleanPc = "recleaned"
    /\ cleaned # schema
    /\ "items" \in DOMAIN cleaned.v
    /\ IsList(cleaned.v["items"])
    /\ Len(cleaned.v["items"].v) = 2
    /\ recleaned = cleaned

\* No dict of x, at any nesting depth, has the key "title".
RECURSIVE NoTitle(_)
NoTitle(x) ==
    IF IsDict(x)
    THEN "title" \notin DOMAIN x.v /\ \A k \in DOMAIN x.v : NoTitle(x.v[k])
    ELSE IF IsList(x)
    THEN \A i \in 1..Len(x.v) : NoTitle(x.v[i])
    ELSE TRUE

\* x with the key "title" dropped from every dict at every depth, every other
\* key kept and every list kept in length and order.
RECURSIVE WithoutTitles(_)
WithoutTitles(x) ==
    IF IsDict(x)
    THEN Dict([k \in (DOMAIN x.v) \ {"title"} |-> WithoutTitles(x.v[k])])
    ELSE IF IsList(x)
    THEN List([i \in 1..Len(x.v) |-> WithoutTitles(x.v[i])])
    ELSE x

\* C10: the cleaned schema has no "title" key at any nesting depth (nested
\* dicts, lists, lists nested in lists), keeps every other key with its
\* cleaned value, and keeps every list's length and order.
C10_NoTitleAtAnyDepth ==
    cleanPc \in {"cleaned", "recleaned"} =>
        /\ NoTitle(cleaned)
        /\ cleaned = WithoutTitles(schema)

----------------------------------------------------------------------------
\* C11: after tool execution the output is the concatenation of the followup
\* reply's text parts when it has text, and the fixed "No discernable text
\* response after tool execution." string in every other case (no candidate,
\* no content, no part, or parts without text such as function calls only).
C11_FollowupTextOrFallback ==
    (pqPc = "done" /\ Len(sent) = 2) =>
        /\ ReplyText(final_response) # EmptyText => output = ReplyText(final_response)
        /\ ReplyText(final_response) = EmptyText => output = NoTextAfterTools

\* C12: a first reply with nothing in it (no candidate, no content, no part,
\* or a part with neither text nor function call) never raises: the query
\* returns the fixed "No response or tool call from the model." string, with
\* no tool invocation and no followup model call.
C12_EmptyReplyFallsBack ==
    (QueryEnded /\ error \notin {"query_list_tools", "model_call"}
        /\ CallIndexes(response) = {} /\ ReplyText(response) = EmptyText)
        => /\ pqPc = "done"
           /\ output = NoResponse
           /\ invoked = <<>>
           /\ Len(sent) = 1

\* The exceptions of the session's setup and of tool discovery.
ConnectionFailures == {"transport", "initialize", "list_tools", "query_list_tools"}

\* C13: on a connected session a query ends in Done with a string output
\* for every model reply and every tool outcome; when each model call gets
\* its reply, nothing but a connection failure reaches the caller.  (The
\* text accessor's failure on an empty first reply is C12's; it is left out
\* here, so that what is checked is the tool outcomes.)
C13_OnlyConnectionFailuresSurface ==
    /\ mainPc = "raised" => error \in ConnectionFailures \cup {"model_call", "response_text"}
    /\ pqPc = "raised" => error \in ConnectionFailures \cup {"model_call", "response_text"}

\* a is b or the start of b.
IsPrefix(a, b) == Len(a) <= Len(b) /\ SubSeq(b, 1, Len(a)) = a

\* The conversation of a followup call: the user's turn, the first reply,
\* and one tool-result turn per requested call, in the calls' order.
FollowupConversation(conv) ==
    LET calls == RequestedCalls(response) IN
    /\ Len(conv) = 2 + Len(calls)
    /\ conv[1] = UserTurn(queries[qi])
    /\ conv[2] = response.candidates[1].content
    /\ \A i \in 1..Len(calls) :
        /\ conv[2 + i].role = "function"
        /\ Len(conv[2 + i].parts) = 1
        /\ conv[2 + i].parts[1].function_response.name = calls[i].name

\* C14: within a query the conversation only grows at its end, one turn at
\* a time, and the conversation given to the followup model call is the
\* user's turn, the model's first reply and one tool-result turn per
\* requested call in the calls' order.
C14_ConversationAppendOnly ==
    /\ [](Len(sent) = 2 => (FollowupConversation(sent[2].contents) /\ contents = sent[2].contents))
    /\ [][\/ pqPc = "await_list_tools"
          \/ /\ IsPrefix(contents, contents')
             /\ Len(contents') <= Len(contents) + 1]_vars

C14_Witness ==
    /\ Len(sent) = 2
    /\ Len(sent[2].contents) = 4
    /\ invoked[1].name # invoked[2].name
    /\ sent[2].contents[3].parts[1].function_response.response = <<"result">>
    /\ sent[2].contents[4].parts[1].function_response.response = <<"Error executing tool">>

\* The tool invocations issued and not yet answered by a result turn.
OutstandingInvocations == Len(invoked) - Len(ResultTurns(contents))

\* C15: at most one suspension is outstanding: an invocation is issued only
\* when the result turns of all earlier ones are appended, and no tool
\* invocation is outstanding while a model call is.
C15_OneSuspensionAtATime ==
    sent # <<>> =>
        /\ OutstandingInvocations \in {0, 1}
        /\ OutstandingInvocations = 1 <=> pqPc = "await_tool" \/ error \in {"call_tool", "tool_result"}
        /\ pqPc \in {"await_first", "await_followup"} => OutstandingInvocations = 0
        /\ pqPc = "await_tool" => Len(sent) = 1 /\ Len(invoked) = tc

C15_Witness ==
    /\ pqPc = "await_tool"
    /\ Len(invoked) = 2
    /\ Len(ResultTurns(contents)) = 1
    /\ Len(function_calls) = 2

\* One declaration per discovered tool, in discovery order, with the tool's
\* name and description and its cleaned input schema.
AdaptedDeclarations(decls) ==
    /\ Len(decls) = Len(ServerTools)
    /\ \A i \in 1..Len(ServerTools) :
        /\ Len(decls[i].function_declarations) = 1
        /\ decls[i].function_declarations[1].name = ServerTools[i].name
        /\ decls[i].function_declarations[1].description = ServerTools[i].description
        /\ decls[i].function_declarations[1].parameters
             = _clean_schema_for_gemini(ServerTools[i].inputSchema)
        /\ "title" \notin DOMAIN decls[i].function_declarations[1].parameters.v

\* C16: a query asks the session for its tools once, before its first model
\* call, and gives every model call of the query the same list: one adapted
\* declaration per discovered tool in discovery order, with policy AUTO.
C16_ToolsListedOnceAndReused ==
    /\ listed <= 1
    /\ pqPc = "await_list_tools" => listed = 1 /\ sent = <<>>
    /\ sent # <<>> =>
        /\ listed = 1
        /\ AdaptedDeclarations(tools)
        /\ \A k \in 1..Len(sent) :
            /\ sent[k].tools = tools
            /\ sent[k].tool_config = "AUTO"

C16_Witness ==
    /\ Len(sent) = 2
    /\ sent[1].tools = sent[2].tools
    /\ Len(sent[2].tools) = 3
    /\ sent[2].tools[3].function_declarations[1].name = "get_time"
    /\ listed = 1

\* C17: the first model call of every query is given a conversation of one
\* turn, the user's turn with that query's text, whatever turns the queries
\* before it produced.
C17_ConversationNotCarriedOver ==
    sent # <<>> => sent[1].contents = <<UserTurn(queries[qi])>>

C17_Witness ==
    /\ qi = Len(queries)
    /\ Len(sent) = 2
    /\ Len(sent[2].contents) = 4
    /\ sent[1].contents = <<UserTurn(<<"giraffes">>)>>

----------------------------------------------------------------------------
\* out is the list items with its dict items cleaned and every other item
\* as it was.
ListCleaned(items, out) ==
    /\ IsList(out)
    /\ Len(out.v) = Len(items.v)
    /\ \A i \in 1..Len(items.v) :
        IF IsDict(items.v[i])
        THEN /\ IsDict(out.v[i])
             /\ "title" \notin DOMAIN out.v[i].v
             /\ out.v[i] = _clean_schema_for_gemini(items.v[i])
        ELSE out.v[i] = items.v[i]

\* C18 as stated: the cleaner takes any JSON value: a scalar is returned
\* unchanged, a list is returned as a list of the same length with its dict
\* items cleaned and every other item unchanged.
C18_CleanTakesAnyValue ==
    (cleanPc # "input" /\ ~IsDict(schema)) =>
        /\ cleanPc # "raised"
        /\ IF IsList(schema) THEN ListCleaned(schema, cleaned) ELSE cleaned = schema

\* C18 as amended: the cleaner takes a dict and raises on a scalar or a
\* list; of a dict's entries other than "title", a scalar value is kept
\* unchanged and a list value becomes a list of the same length with its
\* dict items cleaned and every other item unchanged.
C18_CleanOfDictEntries ==
    /\ cleanPc = "raised" <=> (cleanPc # "input" /\ ~IsDict(schema))
    /\ cleanPc \in {"cleaned", "recleaned"} =>
        \A key \in (DOMAIN schema.v) \ {"title"} :
            /\ key \in DOMAIN cleaned.v
            /\ IF IsList(schema.v[key])
               THEN ListCleaned(schema.v[key], cleaned.v[key])
               ELSE IsDict(schema.v[key]) \/ cleaned.v[key] = schema.v[key]

C18_Witness ==
    /\ cleanPc = "cleaned"
    /\ "type" \in DOMAIN schema.v
    /\ "items" \in DOMAIN schema.v
    /\ IsList(schema.v["items"])
    /\ Len(schema.v["items"].v) = 2
    /\ schema.v["items"].v[1] = Scalar("x")
    /\ IsDict(schema.v["items"].v[2])
    /\ "title" \in DOMAIN schema.v["items"].v[2].v
    /\ cleaned.v["items"].v[1] = Scalar("x")

----------------------------------------------------------------------------
\* C19: main connects once, before the first query; the queries run one
\* after another in list order on that open session, each starting only
\* when the one before it has returned; the session is closed only after
\* the last query has returned, and after the close no model call is issued,
\* no tool is invoked and no query starts.
C19_DriverSequential ==
    /\ [](pqPc \notin {"idle", "done", "raised"} =>
            (mainPc = "loop" /\ session = "open" /\ connected))
    /\ [](mainPc = "done" =>
            (qi = Len(queries) /\ pqPc = "done" /\ session = "closed"))
    /\ [][connected' # connected =>
            IF connected'
            THEN qi = 0 /\ pqPc = "idle" /\ exit_stack = <<"stdio", "session">>
            ELSE session' = "closed"]_vars
    /\ [][qi' # qi =>
            /\ qi' = qi + 1
            /\ connected
            /\ IF qi = 0 THEN pqPc = "idle" ELSE pqPc = "done"]_vars
    /\ [][session = "closed" => (sent' = sent /\ invoked' = invoked /\ qi' = qi)]_vars

C19_Witness ==
    /\ mainPc = "done"
    /\ session = "closed"
    /\ exit_stack = <<>>
    /\ qi = Len(queries)
    /\ pqPc = "done"
    /\ Len(sent) = 2
    /\ invoked # <<>>

----------------------------------------------------------------------------
\* C20 as stated: whatever the order of the calls, process_query called
\* when no connect_to_server has succeeded since construction or since the
\* last cleanup fails at tool discovery, with no model call issued and no
\* tool invoked.
C20_NoModelCallUnlessConnected ==
    (pqPc # "idle" /\ ~connected) =>
        /\ sent = <<>>
        /\ invoked = <<>>
        /\ pqPc \in {"await_list_tools", "raised"}

\* C20 as amended: whatever the order of the calls, a model call is issued
\* and a tool is invoked only on a session that was entered, has done its
\* handshake and is not closed; process_query on a client whose session is
\* None, is not past its handshake or is closed fails at tool discovery
\* with no model call issued and no tool invoked.
C20_ModelCallOnlyOnOpenSession ==
    /\ (sent # <<>> \/ invoked # <<>>
            \/ pqPc \in {"await_first", "await_tool", "await_followup"})
         => (session = "open" /\ Len(exit_stack) >= 2)
    /\ (pqPc # "idle" /\ session # "open") =>
        /\ sent = <<>>
        /\ invoked = <<>>
        /\ \/ pqPc = "await_list_tools" /\ session # "None"
           \/ pqPc = "raised" /\ error = "query_list_tools"

C20_Witness ==
    /\ session = "closed"
    /\ exit_stack = <<>>
    /\ pqPc = "raised"
    /\ error = "query_list_tools"
    /\ listed = 1
    /\ sent = <<>>
    /\ invoked = <<>>

====
